---- MODULE Spec2Model ----
(***************************************************************************)
(* State-machine model of the creatorpilot-api gateway.                    *)
(*                                                                         *)
(* Strings that the code parses (user ids, OAuth state values) are         *)
(* sequences of chunks: ":" is the colon, "urn" and "uuid" are the URN      *)
(* prefix words, the members of UUIDAtoms are canonical 8-4-4-4-12 UUID     *)
(* texts, "zz" is text that is no UUID, and token chunks stand for the      *)
(* 22-character output of secrets.token_urlsafe(16), which never holds a    *)
(* colon.                                                                   *)
(***************************************************************************)
EXTENDS Integers, Sequences, FiniteSets, Bags, TLC

VARIABLES
    settings,   \* the cached Settings object (config.py), fixed for the process
    pending,    \* _pending_states: state_token -> user_id
    issued,     \* history: token -> user id given to /start or /login when it was
                \* minted, until a callback with a well-formed user part presents it
    redeemed,   \* history: tokens that passed validation and were not minted again
    reqs,       \* bag of the in-flight callback requests, each suspended at an await
    last,       \* the latest OAuth handler step: inputs, what it read, its response
    prx,        \* the latest proxy-route exchange (execute, stats, top-video)
    gw          \* the latest exchange of the other routes and of the middleware stack

vars == <<settings, pending, issued, redeemed, reqs, last, prx, gw>>

oauthVars == <<settings, pending, issued, redeemed, reqs, last>>

-----------------------------------------------------------------------------
(* Bounds *)

MaxTokens == 2

MaxInFlight == 2

-----------------------------------------------------------------------------
(* Strings *)

UUIDAtoms == {"U1", "U2"}

TokenNames == <<"T1", "T2", "T3", "T4">>

Tokens == {<<TokenNames[i]>> : i \in 1..MaxTokens}

Colon == ":"

NoStr == <<>>

HasColon(s) == \E i \in 1..Len(s) : s[i] = Colon

FirstColon(s) == CHOOSE i \in 1..Len(s) : s[i] = Colon /\ \A j \in 1..(i - 1) : s[j] # Colon

\* state.split(":", 1): parts[0] and parts[1]
SplitHead(s) == SubSeq(s, 1, FirstColon(s) - 1)

SplitTail(s) == SubSeq(s, FirstColon(s) + 1, Len(s))

\* str.replace(w + ":", "")
RECURSIVE RemovePrefixWord(_, _)
RemovePrefixWord(s, w) ==
    IF Len(s) < 2 THEN s
    ELSE IF s[1] = w /\ s[2] = Colon THEN RemovePrefixWord(SubSeq(s, 3, Len(s)), w)
    ELSE <<s[1]>> \o RemovePrefixWord(Tail(s), w)

\* uuid.UUID(hex): 'urn:' and 'uuid:' are removed, then 32 hex digits must remain
UuidHex(s) == RemovePrefixWord(RemovePrefixWord(s, "urn"), "uuid")

IsUUID(s) == Len(UuidHex(s)) = 1 /\ UuidHex(s)[1] \in UUIDAtoms

\* the uuid.UUID value, and str() of it (the canonical text)
UUIDOf(s) == UuidHex(s)[1]

UUIDStr(u) == <<u>>

\* urllib.parse.urlencode / quote: the colon is percent-encoded
UrlEncode(s) == [i \in 1..Len(s) |-> IF s[i] = Colon THEN "%3A" ELSE s[i]]

\* the query-string decoding applied to an inbound parameter
UrlDecode(s) == [i \in 1..Len(s) |-> IF s[i] = "%3A" THEN Colon ELSE s[i]]

-----------------------------------------------------------------------------
(* Settings (config.py) *)

\* google_client_id defaults to "", google_redirect_uri has a default but the
\* environment may set it to ""
SettingsChoices ==
    [google_client_id : {"", "client-id"}, google_redirect_uri : {"", "redirect-uri"}]

-----------------------------------------------------------------------------
(* Inputs the clients and Google's redirect can send *)

UrnForm(u) == <<"urn", Colon, "uuid", Colon, u>>

UserIdInputs == {<<"U1">>, <<"U2">>, UrnForm("U1"), <<"zz">>}

StartInputs == {<<"U1">>, UrnForm("U1"), <<"zz">>}

\* user_id of /login is optional: <<>> is the omitted parameter, <<u>> carries u
LoginQueries == {<<>>, <<<<"zz">>>>}

CallbackStates ==
    {<<"U2">>, <<"zz">>} \cup {u \o <<Colon>> \o t : u \in UserIdInputs, t \in Tokens}

-----------------------------------------------------------------------------
(* Responses *)

MOBILE_DEEP_LINK == "creatorpilot://auth/callback"

DEFAULT_USER_ID == <<"U1">>

ERR_BAD_UUID == "badly formed hexadecimal UUID string"

ERR_UNKNOWN == "Unknown or expired state token"

ERR_MISMATCH == "State token user_id mismatch"

\* one shape for every response: status 0 is "no response yet"
NoResp ==
    [status |-> 0, kind |-> "none", url |-> "", outcome |-> "", detail |-> "",
     user_id |-> NoStr, channel_id |-> "", channel_name |-> "", state |-> NoStr]

HTTPException(code, text) == [NoResp EXCEPT !.status = code, !.kind = "http_error", !.detail = text]

\* variant: the failure is raised as an HTTP error instead of a redirect
ErrorRedirectRaised(text) == HTTPException(400, text)

\* RedirectResponse to the deep link with status=error&detail=quote(text)
ErrorRedirect(text) ==
    [NoResp EXCEPT !.status = 302, !.kind = "redirect", !.url = MOBILE_DEEP_LINK,
                   !.outcome = "error", !.detail = text]

\* RedirectResponse to the deep link with urlencode(status=success, user_id, ...)
SuccessRedirect(user, channel_id, channel_name) ==
    [NoResp EXCEPT !.status = 302, !.kind = "redirect", !.url = MOBILE_DEEP_LINK,
                   !.outcome = "success", !.user_id = UUIDStr(user),
                   !.channel_id = channel_id, !.channel_name = channel_name]

-----------------------------------------------------------------------------
(* The pending-state store and state validation *)

\* variant: the write replaces the map, as a lost update would
StorePutAlone(store, k, v) == (k :> v)

\* _pending_states[state_token] = user_id
StorePut(store, k, v) == (k :> v) @@ store

\* variant: the store is cleared when a token is consumed
StoreRemoveAll(store, k) == <<>>

\* variant: the token is read with get() and stays in the store
StoreRemoveKeeps(store, k) == store

\* _pending_states.pop(state_token, None): the store without the key
StoreRemove(store, k) == [x \in (DOMAIN store) \ {k} |-> store[x]]

\* the popped value; NoStr stands for None
StoreLookup(store, k) == IF k \in DOMAIN store THEN store[k] ELSE NoStr

\* variant: the state is put in the URL but never stored
BuildGoogleAuthUrlUnstored(user_id, s, store, state_token) ==
    [state |-> UrlEncode(user_id \o <<Colon>> \o state_token), store |-> store]

\* _build_google_auth_url: state_value = f"{user_id}:{state_token}", stored, and
\* embedded in the URL by urlencode
BuildGoogleAuthUrl(user_id, s, store, state_token) ==
    [state |-> UrlEncode(user_id \o <<Colon>> \o state_token),
     store |-> StorePut(store, state_token, user_id)]

ValidationFailure(text, store, stored) ==
    [ok |-> FALSE, error |-> text, user |-> "", store |-> store, stored |-> stored]

\* variant: the legacy path wants some pending token to exist
LegacyValidateChecked(state, store) ==
    IF IsUUID(state) /\ DOMAIN store # {}
    THEN [ok |-> TRUE, error |-> "", user |-> UUIDOf(state), store |-> store, stored |-> NoStr]
    ELSE ValidationFailure(ERR_UNKNOWN, store, NoStr)

\* lines 101-103: a state without a colon is a bare user id; the store is not read
LegacyValidate(state, store) ==
    IF IsUUID(state)
    THEN [ok |-> TRUE, error |-> "", user |-> UUIDOf(state), store |-> store, stored |-> NoStr]
    ELSE ValidationFailure(ERR_BAD_UUID, store, NoStr)

\* variant: the stored user id is not compared
StoredMatchesAny(stored_user_id, user_id_str) == TRUE

\* line 115: stored_user_id != user_id_str, on the strings
StoredMatches(stored_user_id, user_id_str) == stored_user_id = user_id_str

\* variant: the token is removed only when the stored user id matches
ValidateStateMismatchKeeps(state, store) ==
    IF ~HasColon(state) THEN LegacyValidate(state, store)
    ELSE LET user_id_str == SplitHead(state)
             state_token == SplitTail(state)
             stored_user_id == StoreLookup(store, state_token)
             popped == StoreRemove(store, state_token)
         IN  IF ~IsUUID(user_id_str) THEN ValidationFailure(ERR_BAD_UUID, store, NoStr)
             ELSE IF state_token \notin DOMAIN store
                  THEN ValidationFailure(ERR_UNKNOWN, popped, NoStr)
             ELSE IF ~StoredMatches(stored_user_id, user_id_str)
                  THEN ValidationFailure(ERR_MISMATCH, store, stored_user_id)
             ELSE [ok |-> TRUE, error |-> "", user |-> UUIDOf(user_id_str),
                   store |-> popped, stored |-> stored_user_id]

\* _validate_state
ValidateState(state, store) ==
    IF ~HasColon(state) THEN LegacyValidate(state, store)
    ELSE LET user_id_str == SplitHead(state)
             state_token == SplitTail(state)
             stored_user_id == StoreLookup(store, state_token)
             popped == StoreRemove(store, state_token)
         IN  IF ~IsUUID(user_id_str) THEN ValidationFailure(ERR_BAD_UUID, store, NoStr)
             ELSE IF state_token \notin DOMAIN store
                  THEN ValidationFailure(ERR_UNKNOWN, popped, NoStr)
             ELSE IF ~StoredMatches(stored_user_id, user_id_str)
                  THEN ValidationFailure(ERR_MISMATCH, popped, stored_user_id)
             ELSE [ok |-> TRUE, error |-> "", user |-> UUIDOf(user_id_str),
                   store |-> popped, stored |-> stored_user_id]

-----------------------------------------------------------------------------
(* /start and /login *)

\* the checks shared by youtube_auth_start and youtube_auth_login; NoResp when
\* the request passes them
StartRejection(user_id, s) ==
    IF s.google_client_id = "" THEN HTTPException(500, "Google OAuth is not configured")
    ELSE IF s.google_redirect_uri = ""
         THEN HTTPException(500, "Google OAuth redirect URI is not configured")
    ELSE IF ~IsUUID(user_id)
         THEN HTTPException(400, "Invalid user_id format. Expected UUID.")
    ELSE NoResp

\* variant: the authorization URL is built before the request is checked
YoutubeAuthStartBuildsFirst(user_id, s, store, state_token) ==
    LET rejected == StartRejection(user_id, s)
        built == BuildGoogleAuthUrl(user_id, s, store, state_token)
    IN  IF rejected.status # 0 THEN [resp |-> rejected, store |-> built.store, minted |-> FALSE]
        ELSE [resp |-> [NoResp EXCEPT !.status = 200, !.kind = "auth_url",
                                       !.url = "google_auth_url", !.state = built.state],
              store |-> built.store, minted |-> TRUE]

\* youtube_auth_start: AuthUrlResponse(auth_url) as JSON, status 200
YoutubeAuthStart(user_id, s, store, state_token) ==
    LET rejected == StartRejection(user_id, s)
        built == BuildGoogleAuthUrl(user_id, s, store, state_token)
    IN  IF rejected.status # 0 THEN [resp |-> rejected, store |-> store, minted |-> FALSE]
        ELSE [resp |-> [NoResp EXCEPT !.status = 200, !.kind = "auth_url",
                                       !.url = "google_auth_url", !.state = built.state],
              store |-> built.store, minted |-> TRUE]

\* youtube_auth_login: RedirectResponse(url=auth_url, status_code=302)
YoutubeAuthLogin(query, s, store, state_token) ==
    LET user_id == IF query = <<>> THEN DEFAULT_USER_ID ELSE query[1]
        rejected == StartRejection(user_id, s)
        built == BuildGoogleAuthUrl(user_id, s, store, state_token)
    IN  IF rejected.status # 0 THEN [resp |-> rejected, store |-> store, minted |-> FALSE]
        ELSE [resp |-> [NoResp EXCEPT !.status = 302, !.kind = "redirect",
                                       !.url = "google_auth_url", !.state = built.state],
              store |-> built.store, minted |-> TRUE]

-----------------------------------------------------------------------------
(* Downstream replies seen by the callback *)

ABSENT == "<absent>"

NULL == "<null>"

\* a presence check that lets every value through
TruthyAny(v) == TRUE

\* Python truth of dict.get(key): a missing key, null, false and "" are falsy
Truthy(v) == v \notin {ABSENT, NULL, "false", ""}

TransportError ==
    [kind |-> "transport_error", status |-> 0, json |-> FALSE, error_description |-> ABSENT,
     error |-> ABSENT, access_token |-> ABSENT, refresh_token |-> ABSENT]

TokenReply(code, isJson, desc, err, at, rt) ==
    [kind |-> "response", status |-> code, json |-> isJson, error_description |-> desc,
     error |-> err, access_token |-> at, refresh_token |-> rt]

\* what Google's token endpoint can answer
TokenOutcomes ==
    {TransportError,
     TokenReply(400, TRUE, "Bad Request", "invalid_grant", ABSENT, ABSENT),
     TokenReply(401, TRUE, ABSENT, "invalid_client", ABSENT, ABSENT),
     TokenReply(400, TRUE, ABSENT, ABSENT, ABSENT, ABSENT),
     TokenReply(502, FALSE, ABSENT, ABSENT, ABSENT, ABSENT),
     TokenReply(200, FALSE, ABSENT, ABSENT, ABSENT, ABSENT),
     TokenReply(200, TRUE, ABSENT, ABSENT, ABSENT, "RT"),
     TokenReply(200, TRUE, ABSENT, ABSENT, NULL, ABSENT),
     TokenReply(200, TRUE, ABSENT, ABSENT, "", ABSENT),
     TokenReply(200, TRUE, ABSENT, ABSENT, "AT", "RT")}

\* variant: the error member is looked at before error_description
ExchangeCodeForTokensErrorFirst(reply) ==
    IF reply.kind = "transport_error"
    THEN [raised |-> "transport error", access_token |-> ABSENT, refresh_token |-> ABSENT]
    ELSE IF reply.status # 200
    THEN LET error_detail ==
                 IF ~reply.json THEN "Token exchange failed"
                 ELSE IF reply.error # ABSENT THEN reply.error
                 ELSE IF reply.error_description # ABSENT THEN reply.error_description
                 ELSE "Unknown error"
         IN  [raised |-> error_detail, access_token |-> ABSENT, refresh_token |-> ABSENT]
    ELSE IF ~reply.json
    THEN [raised |-> "JSONDecodeError", access_token |-> ABSENT, refresh_token |-> ABSENT]
    ELSE [raised |-> "", access_token |-> reply.access_token,
          refresh_token |-> reply.refresh_token]

\* _exchange_code_for_tokens: raised is the exception text, "" when it returns;
\* for a non-200 answer it is the error_detail that follows "Token exchange failed: "
ExchangeCodeForTokens(reply) ==
    IF reply.kind = "transport_error"
    THEN [raised |-> "transport error", access_token |-> ABSENT, refresh_token |-> ABSENT]
    ELSE IF reply.status # 200
    THEN LET error_detail ==
                 IF ~reply.json THEN "Token exchange failed"
                 ELSE IF reply.error_description # ABSENT THEN reply.error_description
                 ELSE IF reply.error # ABSENT THEN reply.error
                 ELSE "Unknown error"
         IN  [raised |-> error_detail, access_token |-> ABSENT, refresh_token |-> ABSENT]
    ELSE IF ~reply.json
    THEN [raised |-> "JSONDecodeError", access_token |-> ABSENT, refresh_token |-> ABSENT]
    ELSE [raised |-> "", access_token |-> reply.access_token,
          refresh_token |-> reply.refresh_token]

ChannelReply(k, code, n, id, title) ==
    [kind |-> k, status |-> code, items |-> n, id |-> id, title |-> title]

\* what the YouTube channels endpoint can answer: items is the length of "items"
ChannelOutcomes ==
    {ChannelReply("transport_error", 0, 0, "", ""),
     ChannelReply("response", 401, 0, "", ""),
     ChannelReply("response", 200, 0, "", ""),
     ChannelReply("response", 200, 1, "UC-1", "Channel One"),
     ChannelReply("response", 200, 2, "UC-1", "Channel One")}

\* _fetch_youtube_channel
FetchYoutubeChannel(reply) ==
    IF reply.kind = "transport_error" THEN [raised |-> "transport error", id |-> "", title |-> ""]
    ELSE IF reply.status # 200 THEN [raised |-> "YouTube API error", id |-> "", title |-> ""]
    ELSE IF reply.items = 0
    THEN [raised |-> "No YouTube channel found for this account", id |-> "", title |-> ""]
    ELSE [raised |-> "", id |-> reply.id, title |-> reply.title]

\* what MCP /channels/connect can answer
ForwardOutcomes ==
    {[kind |-> "transport_error", status |-> 0]} \cup
    {[kind |-> "response", status |-> c] : c \in {200, 201, 204, 404, 500}}

\* _forward_channel_to_mcp
ForwardChannelToMcp(reply) ==
    IF reply.kind = "transport_error" THEN [raised |-> "transport error"]
    ELSE IF reply.status \notin {200, 201}
    THEN [raised |-> "MCP channel connect failed"]
    ELSE [raised |-> ""]

-----------------------------------------------------------------------------
(* The OAuth handlers as actions *)

\* a callback suspended at an await: where it waits, its locals, the calls it made
Waiting(pc, user, channel_id, channel_name, calls) ==
    [pc |-> pc, user |-> user, channel_id |-> channel_id, channel_name |-> channel_name,
     calls |-> calls]

Suspend(r) == reqs (+) SetToBag({r})

Resume(r) == reqs (-) SetToBag({r})

NoStep ==
    [op |-> "none", step |-> "", input |-> NoStr, token |-> NoStr, stored |-> NoStr,
     before |-> <<>>, wasRedeemed |-> FALSE, touched |-> FALSE, ok |-> FALSE, error |-> "", reply |-> "",
     answer |-> [kind |-> "none"], resp |-> NoResp, calls |-> <<>>]

NoBody == [kind |-> "none"]

NoReply == [kind |-> "none"]

NoCall == [raised |-> "", text |-> "", value |-> NoBody]

Exchange(op, pc, reply, client, status, detail, body, calls) ==
    [op |-> op, pc |-> pc, reply |-> reply, client |-> client,
     resp |-> [status |-> status, detail |-> detail, body |-> body], calls |-> calls]

NoExchange == Exchange("none", "idle", NoReply, NoCall, 0, "", NoBody, <<>>)

\* no request to the other routes yet
NoGateway ==
    [op |-> "none", pc |-> "idle", input |-> "",
     locals |-> [user |-> "", channel_id |-> "", channel_name |-> ""],
     reply |-> NoReply, client |-> NoCall,
     resp |-> [status |-> 0, detail |-> "", body |-> NoBody], calls |-> <<>>]

Init ==
    /\ settings \in SettingsChoices
    /\ pending = <<>>
    /\ issued = <<>>
    /\ redeemed = {}
    /\ reqs = EmptyBag
    /\ last = NoStep
    /\ prx = NoExchange
    /\ gw = NoGateway

\* secrets.token_urlsafe(16): 128 random bits, so no token equal to one that is
\* still pending is drawn; a token name is drawn again once it left the store
FreshTokens == Tokens \ DOMAIN pending

\* a rejected request draws no token
FirstToken == <<TokenNames[1]>>

\* GET /auth/youtube/start?user_id=u
Start(u) ==
    \E t \in Tokens :
        LET r == YoutubeAuthStart(u, settings, pending, t)
        IN  /\ t \in (IF r.minted THEN FreshTokens ELSE {FirstToken})
            /\ pending' = r.store
            /\ issued' = IF r.minted THEN (t :> u) @@ issued ELSE issued
            /\ redeemed' = IF r.minted THEN redeemed \ {t} ELSE redeemed
            /\ last' = [NoStep EXCEPT !.op = "start", !.step = "done", !.input = u,
                                       !.token = IF r.minted THEN t ELSE NoStr,
                                       !.touched = (r.store # pending),
                                       !.ok = r.minted, !.resp = r.resp]
            /\ UNCHANGED <<settings, reqs, prx, gw>>

\* GET /auth/youtube/login[?user_id=u]
Login(q) ==
    \E t \in Tokens :
        LET r == YoutubeAuthLogin(q, settings, pending, t)
        IN  /\ t \in (IF r.minted THEN FreshTokens ELSE {FirstToken})
            /\ pending' = r.store
            /\ issued' = IF r.minted THEN (t :> (IF q = <<>> THEN DEFAULT_USER_ID ELSE q[1])) @@ issued
                         ELSE issued
            /\ redeemed' = IF r.minted THEN redeemed \ {t} ELSE redeemed
            /\ last' = [NoStep EXCEPT !.op = "login", !.step = "done",
                                       !.input = IF q = <<>> THEN NoStr ELSE q[1],
                                       !.token = IF r.minted THEN t ELSE NoStr,
                                       !.touched = (r.store # pending),
                                       !.ok = r.minted, !.resp = r.resp]
            /\ UNCHANGED <<settings, reqs, prx, gw>>

\* the state token of the request a reply belongs to, where the steps seen tell
\* it: the previous step was a successful step of a callback that is still in
\* flight, and it is the only request in flight
OwnToken ==
    IF last.op = "callback" /\ last.ok /\ last.step # "forward" /\ BagCardinality(reqs) = 1
    THEN last.token ELSE NoStr

\* GET /auth/youtube/callback?code=..&state=..: from the request's arrival to its
\* first await, the POST to Google's token endpoint (or to the error redirect)
CallbackBegin(state) ==
    /\ BagCardinality(reqs) < MaxInFlight
    /\ LET v == ValidateState(state, pending)
           tok == IF HasColon(state) THEN SplitTail(state) ELSE NoStr
       IN  /\ pending' = v.store
           /\ issued' = IF HasColon(state) /\ IsUUID(SplitHead(state))
                        THEN [x \in (DOMAIN issued) \ {tok} |-> issued[x]] ELSE issued
           /\ redeemed' = IF v.ok /\ HasColon(state) THEN redeemed \cup {tok} ELSE redeemed
           /\ reqs' = IF v.ok THEN Suspend(Waiting("token", v.user, "", "", <<"google_token">>))
                      ELSE reqs
           /\ last' = [NoStep EXCEPT !.op = "callback", !.step = "validate", !.input = state,
                                      !.token = tok, !.stored = v.stored,
                                      !.before = pending,
                                      !.wasRedeemed = (tok \in redeemed),
                                      !.touched = (v.store # pending),
                                      !.ok = v.ok, !.error = v.error,
                                      !.resp = IF v.ok THEN NoResp ELSE ErrorRedirect(v.error),
                                      !.calls = IF v.ok THEN <<"google_token">> ELSE <<>>]
    /\ UNCHANGED <<settings, prx, gw>>

\* variant: a failed token exchange puts the state token back into the store
CallbackTokenReplyRestores(r, reply) ==
    /\ r.pc = "token"
    /\ LET tokens == ExchangeCodeForTokens(reply)
           failed == tokens.raised # "" \/ ~Truthy(tokens.access_token)
           detail == IF tokens.raised # "" THEN "Token exchange failed"
                     ELSE "No access token received"
           calls == IF failed THEN r.calls ELSE Append(r.calls, "youtube_channels")
       IN  /\ reqs' = IF failed THEN Resume(r)
                      ELSE Resume(r) (+) SetToBag({[r EXCEPT !.pc = "channel", !.calls = calls]})
           /\ last' = [NoStep EXCEPT !.op = "callback", !.step = "token", !.token = OwnToken, !.ok = ~failed,
                                      !.error = tokens.raised,
                                      !.reply = tokens.access_token,
                                      !.answer = reply,
                                      !.resp = IF failed THEN ErrorRedirect(detail) ELSE NoResp,
                                      !.calls = calls]
    /\ pending' = IF (ExchangeCodeForTokens(reply).raised # "") /\ OwnToken # NoStr
                  THEN StorePut(pending, OwnToken, <<r.user>>) ELSE pending
    /\ UNCHANGED <<settings, issued, redeemed, prx, gw>>

\* the token endpoint answered: lines 241-262 of youtube_auth_callback
CallbackTokenReply(r, reply) ==
    /\ r.pc = "token"
    /\ LET tokens == ExchangeCodeForTokens(reply)
           failed == tokens.raised # "" \/ ~Truthy(tokens.access_token)
           detail == IF tokens.raised # "" THEN "Token exchange failed"
                     ELSE "No access token received"
           calls == IF failed THEN r.calls ELSE Append(r.calls, "youtube_channels")
       IN  /\ reqs' = IF failed THEN Resume(r)
                      ELSE Resume(r) (+) SetToBag({[r EXCEPT !.pc = "channel", !.calls = calls]})
           /\ last' = [NoStep EXCEPT !.op = "callback", !.step = "token", !.token = OwnToken, !.ok = ~failed,
                                      !.error = tokens.raised,
                                      !.reply = tokens.access_token,
                                      !.answer = reply,
                                      !.resp = IF failed THEN ErrorRedirect(detail) ELSE NoResp,
                                      !.calls = calls]
    /\ UNCHANGED <<settings, pending, issued, redeemed, prx, gw>>

\* the channels endpoint answered: lines 263-282
CallbackChannelReply(r, reply) ==
    /\ r.pc = "channel"
    /\ LET channel_info == FetchYoutubeChannel(reply)
           failed == channel_info.raised # ""
           calls == IF failed THEN r.calls ELSE Append(r.calls, "mcp_channels_connect")
       IN  /\ reqs' = IF failed THEN Resume(r)
                      ELSE Resume(r) (+) SetToBag({[r EXCEPT !.pc = "forward", !.calls = calls,
                                                              !.channel_id = channel_info.id,
                                                              !.channel_name = channel_info.title]})
           /\ last' = [NoStep EXCEPT !.op = "callback", !.step = "channel", !.token = OwnToken, !.ok = ~failed,
                                      !.error = channel_info.raised,
                                      !.resp = IF failed
                                               THEN ErrorRedirect("Failed to fetch channel info")
                                               ELSE NoResp,
                                      !.calls = calls]
    /\ UNCHANGED <<settings, pending, issued, redeemed, prx, gw>>

\* MCP /channels/connect answered: lines 283-305
CallbackForwardReply(r, reply) ==
    /\ r.pc = "forward"
    /\ LET forwarded == ForwardChannelToMcp(reply)
           failed == forwarded.raised # ""
       IN  /\ reqs' = Resume(r)
           /\ last' = [NoStep EXCEPT !.op = "callback", !.step = "forward", !.token = OwnToken, !.ok = ~failed,
                                      !.error = forwarded.raised,
                                      !.reply = IF reply.kind = "response"
                                                THEN ToString(reply.status) ELSE reply.kind,
                                      !.resp = IF failed
                                               THEN ErrorRedirect("Failed to save connection")
                                               ELSE SuccessRedirect(r.user, r.channel_id,
                                                                    r.channel_name),
                                      !.calls = r.calls]
    /\ UNCHANGED <<settings, pending, issued, redeemed, prx, gw>>

OAuthNext ==
    \/ \E u \in StartInputs : Start(u)
    \/ \E q \in LoginQueries : Login(q)
    \/ \E state \in CallbackStates : CallbackBegin(state)
    \/ \E r \in BagToSet(reqs), reply \in TokenOutcomes : CallbackTokenReply(r, reply)
    \/ \E r \in BagToSet(reqs), reply \in ChannelOutcomes : CallbackChannelReply(r, reply)
    \/ \E r \in BagToSet(reqs), reply \in ForwardOutcomes : CallbackForwardReply(r, reply)

Spec == Init /\ [][OAuthNext]_vars

-----------------------------------------------------------------------------
(* Properties of the OAuth state store and the callback, checked under Spec *)

\* the validation step of a callback whose state has the form u:t
TokenCallback == last.op = "callback" /\ last.step = "validate" /\ HasColon(last.input)

Canonical(u) == Len(u) = 1 /\ u[1] \in UUIDAtoms

Configured == settings.google_client_id # "" /\ settings.google_redirect_uri # ""

C3_TokenPathIff ==
    /\ DOMAIN pending = DOMAIN issued
    /\ \A t \in DOMAIN pending : pending[t] = issued[t]
    /\ TokenCallback =>
            LET u == SplitHead(last.input)
                t == SplitTail(last.input)
            IN  /\ last.ok <=> /\ IsUUID(u)
                               /\ t \in DOMAIN last.before
                               /\ last.before[t] = u
                /\ last.ok => /\ ~last.wasRedeemed
                              /\ t \notin DOMAIN pending
                              /\ last.stored = u

\* a token callback was accepted
C3_Witness == TokenCallback /\ last.ok /\ IsUUID(SplitHead(last.input))

\* the validation step of a callback whose state is a bare UUID
LegacyCallback ==
    /\ last.op = "callback" /\ last.step = "validate"
    /\ ~HasColon(last.input) /\ IsUUID(last.input)

\* C4: a callback whose state has no colon and parses as a UUID is accepted as a
\* legacy bare user id whatever the store holds, and the store is not changed.
C4_LegacyAccepted ==
    LegacyCallback => /\ last.ok
                      /\ ~last.touched
                      /\ pending = last.before
                      /\ last.calls = <<"google_token">>

\* a legacy state was accepted with an empty store
C4_Witness == LegacyCallback /\ last.ok /\ DOMAIN last.before = {}

\* the detail a failed callback step must report
StepDetail ==
    CASE last.step = "validate" -> last.error
      [] last.step = "token" -> IF last.error # "" THEN "Token exchange failed"
                                ELSE "No access token received"
      [] last.step = "channel" -> "Failed to fetch channel info"
      [] OTHER -> "Failed to save connection"

MismatchedCallback ==
    /\ TokenCallback /\ IsUUID(SplitHead(last.input))
    /\ last.token \in DOMAIN last.before
    /\ last.before[last.token] # SplitHead(last.input)

LaterStepFailed ==
    /\ last.op = "callback" /\ last.step \in {"token", "channel", "forward"}
    /\ ~last.ok /\ last.token # NoStr

\* C24: the callback consumes the state token before its first outbound call:
\* an accepted callback has the token out of the store when the token endpoint
\* is called. When a later step fails (token exchange, missing access token,
\* channel fetch, MCP forward) the token stays out of the store, and the same
\* callback sent again fails at validation as unknown or expired and calls
\* neither Google nor MCP.
C24_TokenConsumedBeforeCalls ==
    /\ (TokenCallback /\ last.ok) =>
            /\ last.token \in DOMAIN last.before
            /\ last.token \notin DOMAIN pending
            /\ last.calls = <<"google_token">>
    /\ LaterStepFailed =>
            /\ last.token \notin DOMAIN pending
            /\ last.token \in redeemed
            /\ last.resp.outcome = "error"
            /\ \A u \in UUIDAtoms :
                  LET again == ValidateState(<<u, Colon>> \o last.token, pending)
                  IN  ~again.ok /\ again.error = ERR_UNKNOWN /\ again.store = pending
    /\ (TokenCallback /\ last.wasRedeemed /\ IsUUID(SplitHead(last.input))) =>
            /\ ~last.ok /\ last.error = ERR_UNKNOWN
            /\ last.calls = <<>>
            /\ last.resp = ErrorRedirect(ERR_UNKNOWN)

\* MCP refused the connection record of a callback that had redeemed a token
C24_Witness ==
    /\ LaterStepFailed /\ last.step = "forward"
    /\ last.token \in redeemed /\ last.token \notin DOMAIN pending

\* the user id a start or login request asks for
Requester(step) == IF step.op = "login" /\ step.input = NoStr THEN DEFAULT_USER_ID ELSE step.input

\* a start or login request was turned away
StartRejected == last.op \in {"start", "login"} /\ ~last.ok

\* C25: a start or login request that is rejected (500 when the Google client
\* id or the redirect URI is not configured, 400 when user_id is not a UUID)
\* leaves the store as it was: no token is minted or stored unless the request
\* returns an authorization URL.
C25_RejectedStartLeavesStore ==
    /\ last.op \in {"start", "login"} =>
            /\ last.ok <=> (Configured /\ IsUUID(Requester(last)))
            /\ last.ok <=> last.resp.status = (IF last.op = "start" THEN 200 ELSE 302)
            /\ last.ok <=> last.touched
    /\ StartRejected =>
            /\ last.resp.kind = "http_error"
            /\ last.resp.status = (IF Configured THEN 400 ELSE 500)
            /\ ~last.touched
            /\ last.token = NoStr
            /\ last.resp.state = NoStr
            /\ DOMAIN pending = DOMAIN issued /\ \A t \in DOMAIN pending : pending[t] = issued[t]

\* a login with a malformed user_id was answered 400 while a token was pending
C25_Witness ==
    /\ StartRejected /\ last.op = "login" /\ last.resp.status = 400
    /\ DOMAIN pending # {}

\* the downstream calls of one callback, in the order the handler makes them
CallbackCallOrder == <<"google_token", "youtube_channels", "mcp_channels_connect">>

\* the calls a callback has made when it waits at pc
CallsUpTo(pc) ==
    CASE pc = "token" -> SubSeq(CallbackCallOrder, 1, 1)
      [] pc = "channel" -> SubSeq(CallbackCallOrder, 1, 2)
      [] OTHER -> CallbackCallOrder

\* C17: within one callback the steps run in the order validation, token
\* exchange, access-token check, channel fetch, MCP forward, and a failed step
\* ends the request: the token endpoint is called only after validation
\* succeeded, the channels endpoint only after a token exchange that returned a
\* non-empty access token, /channels/connect only after the channel fetch
\* returned; the calls made are always a prefix of that order.
C17_CallbackStepOrder ==
    /\ \A r \in BagToSet(reqs) : r.calls = CallsUpTo(r.pc)
    /\ last.op = "callback" =>
          /\ \E n \in 0..3 : last.calls = SubSeq(CallbackCallOrder, 1, n)
          /\ last.step = "validate" => Len(last.calls) = (IF last.ok THEN 1 ELSE 0)
          /\ last.step = "token" =>
                /\ Len(last.calls) = (IF last.ok THEN 2 ELSE 1)
                /\ last.ok <=> (last.error = "" /\ last.reply \notin {ABSENT, NULL, ""})
          /\ last.step = "channel" =>
                /\ Len(last.calls) = (IF last.ok THEN 3 ELSE 2)
                /\ last.ok <=> last.error = ""
          /\ last.step = "forward" => Len(last.calls) = 3
          /\ ~last.ok => last.resp.kind = "redirect" /\ last.resp.outcome = "error"
          /\ (last.ok /\ last.step # "forward") => last.resp = NoResp

\* the token endpoint answered 200 with a null access token and the callback
\* ended without calling the channels endpoint
C17_Witness ==
    /\ last.op = "callback" /\ last.step = "token" /\ last.error = ""
    /\ last.reply = NULL /\ last.calls = <<"google_token">>
    /\ last.resp = ErrorRedirect("No access token received")

\* C18: under every interleaving of start, login and callback requests (callbacks
\* suspended at their awaits while others run) no inserted entry is lost: every
\* token issued and not yet presented to a callback is in the store with the
\* user id it was issued for, and the store holds nothing else; and no token is
\* redeemed twice: a callback carrying a token that already passed validation
\* fails, whether or not the first callback is still in flight.
C18_StoreSafeUnderInterleaving ==
    /\ \A t \in DOMAIN issued : t \in DOMAIN pending /\ pending[t] = issued[t]
    /\ DOMAIN pending \subseteq DOMAIN issued
    /\ \A t \in redeemed : t \notin DOMAIN pending
    /\ (TokenCallback /\ last.ok) =>
            /\ ~last.wasRedeemed
            /\ last.token \in redeemed
            /\ last.before[last.token] = SplitHead(last.input)
    /\ (TokenCallback /\ last.wasRedeemed) => ~last.ok /\ last.calls = <<>>

\* a callback carrying an already redeemed token was turned away while a callback
\* accepted for the same user still waits for Google, and a token minted in
\* between is still in the store
C18_Witness ==
    /\ TokenCallback /\ last.wasRedeemed /\ ~last.ok
    /\ \E r \in BagToSet(reqs) : r.pc = "token" /\ <<r.user>> = UuidHex(SplitHead(last.input))
    /\ DOMAIN pending # {}

-----------------------------------------------------------------------------
(* MCP /execute: the replies MCP can give *)

\* statuses MCP can answer with; httpx raise_for_status raises for every non-2xx
McpStatuses == {200, 201, 302, 404, 500, 503}

Is2xx(code) == code \in 200..299

NoError == [kind |-> ABSENT, code |-> ABSENT, message |-> ABSENT]

\* the "error" member of the body: absent, null, a plain string, or an object
\* with optional "code" and "message" strings
ErrorValues ==
    {NoError, [NoError EXCEPT !.kind = NULL], [NoError EXCEPT !.kind = "string", !.message = "boom"]}
    \cup [kind : {"object"}, code : {ABSENT, "RATE_LIMITED", "PLAN_LIMIT_REACHED"},
          message : {ABSENT, "Plan limit reached"}]

\* the "metadata" member: absent, null, or an object with an optional confidence
MetadataValues ==
    {[kind |-> ABSENT, confidence |-> ABSENT], [kind |-> NULL, confidence |-> ABSENT]}
    \cup [kind : {"object"}, confidence : {ABSENT, NULL, "0.67", "1.5"}]

ExecBody(success, error, content, metadata, tools_used, content_type, tool_outputs) ==
    [success |-> success, error |-> error, content |-> content, metadata |-> metadata,
     tools_used |-> tools_used, content_type |-> content_type, tool_outputs |-> tool_outputs]

NoExecBody == ExecBody(ABSENT, NoError, ABSENT, [kind |-> ABSENT, confidence |-> ABSENT],
                       ABSENT, ABSENT, ABSENT)

\* bodies that report a failure: success absent, null or false
FailureBodies ==
    {ExecBody(su, e, ABSENT, m, ABSENT, ABSENT, ABSENT) :
        su \in {ABSENT, NULL, "false"}, e \in ErrorValues,
        m \in {x \in MetadataValues : x.confidence = ABSENT}}

\* bodies that report success
SuccessBodies ==
    {ExecBody("true", NoError, c, m, t, ct, ABSENT) :
        c \in {ABSENT, NULL, "", "Here is your data."}, m \in MetadataValues,
        t \in {ABSENT, NULL, "fetch_analytics"}, ct \in {ABSENT, "analytics"}}

McpReply(kind, status, json, body) == [kind |-> kind, status |-> status, json |-> json, body |-> body]

ExecuteOutcomes ==
    {McpReply("timeout", 0, FALSE, NoExecBody), McpReply("connect_error", 0, FALSE, NoExecBody)}
    \cup {McpReply("response", c, FALSE, NoExecBody) : c \in McpStatuses}
    \cup {McpReply("response", c, TRUE, b) : c \in {200, 201}, b \in FailureBodies \cup SuccessBodies}

-----------------------------------------------------------------------------
(* MCPClient.execute and the /api/v1/execute route *)

ExecuteResponse(answer, confidence, tools_used, content_type, tool_outputs, metadata, success, error) ==
    [kind |-> "execute", answer |-> answer, confidence |-> confidence, tools_used |-> tools_used,
     content_type |-> content_type, tool_outputs |-> tool_outputs, metadata |-> metadata,
     success |-> success, error |-> error]

\* dict.get(key, default): the default only for a missing key
GetOr(v, default) == IF v = ABSENT THEN default ELSE v

\* dict.get(key): None for a missing key
Get(v) == IF v = ABSENT THEN NULL ELSE v

NullMetadata == [kind |-> NULL, confidence |-> ABSENT]

GetMetadata(m) == IF m.kind = "object" THEN m ELSE NullMetadata

\* confidence: float with ge=0, le=1
ConfidenceInRange == {"0.0", "0.67"}

\* the field constraints of the ExecuteResponse schema
SchemaAccepts(r) ==
    /\ r.answer # NULL
    /\ r.confidence \in ConfidenceInRange
    /\ r.tools_used # NULL

Raise(exc, text) == [raised |-> exc, text |-> text, value |-> NoBody]

Return(value) == [raised |-> "", text |-> "", value |-> value]

EmptyList == "[]"

NullError == [NoError EXCEPT !.kind = NULL]

\* variant: the error code is never recognised
PlanLimitNever(body) == FALSE

\* lines 72-75: error_code == "PLAN_LIMIT_REACHED", "" unless error is a dict
PlanLimit(body) == body.error.kind = "object" /\ body.error.code = "PLAN_LIMIT_REACHED"

\* lines 67-103: the body of a 2xx reply turned into the gateway's response
TransformReply(data) ==
    IF ~Truthy(data.success)
    THEN IF PlanLimit(data)
         THEN Return(ExecuteResponse(GetOr(data.error.message, "Plan limit reached"), "0.0",
                                     EmptyList, NULL, NULL, GetMetadata(data.metadata), FALSE,
                                     data.error))
         ELSE Raise("MCPClientError", "MCP execution failed")
    ELSE IF data.metadata.kind = NULL THEN Raise("AttributeError", "")
    ELSE LET result == ExecuteResponse(IF Truthy(data.content) THEN data.content ELSE "",
                                       IF data.metadata.kind = ABSENT THEN "0.0"
                                       ELSE GetOr(data.metadata.confidence, "0.0"),
                                       GetOr(data.tools_used, EmptyList),
                                       Get(data.content_type), Get(data.tool_outputs),
                                       GetMetadata(data.metadata), TRUE, NullError)
         IN  IF SchemaAccepts(result) THEN Return(result) ELSE Raise("ValidationError", "")

\* MCPClient.execute
MCPClientExecute(reply) ==
    IF reply.kind = "timeout" THEN Raise("MCPClientError", "MCP server request timed out")
    ELSE IF reply.kind # "response" THEN Raise("MCPClientError", "MCP server request failed")
    ELSE IF ~Is2xx(reply.status) THEN Raise("MCPClientError", "MCP server request failed")
    ELSE IF ~reply.json THEN Raise("JSONDecodeError", "")
    ELSE TransformReply(reply.body)

\* variant: every failure goes to the generic handler
ExecuteErrorStatusGeneric(raised) == 500

\* the two except clauses of the execute route
ExecuteErrorStatus(raised) == IF raised = "MCPClientError" THEN 503 ELSE 500

\* the execute route: what the caller gets for the client's result
ExecuteRoute(reply) ==
    LET response == MCPClientExecute(reply)
    IN  IF response.raised = "" THEN Exchange("execute", "done", reply, response, 200, "",
                                              response.value, <<"mcp_execute">>)
        ELSE Exchange("execute", "done", reply, response, ExecuteErrorStatus(response.raised),
                      IF response.raised = "MCPClientError" THEN response.text
                      ELSE "An unexpected error occurred",
                      NoBody, <<"mcp_execute">>)

-----------------------------------------------------------------------------
(* /api/v1/channel/stats and /api/v1/channel/top-video *)

\* what MCP can answer to a GET: body names the JSON object of a 2xx reply
ProxyOutcomes ==
    {McpReply("timeout", 0, FALSE, ""), McpReply("connect_error", 0, FALSE, "")}
    \cup {McpReply("response", c, FALSE, "") : c \in McpStatuses}
    \cup {McpReply("response", c, TRUE, b) : c \in {200, 201}, b \in {"json-a", "json-b"}}

Passthrough(json) == [kind |-> "passthrough", json |-> json]

\* variant: without the status_code == 404 test of lines 44-48
GetChannelStatsNo404(reply) ==
    IF reply.kind # "response"
    THEN Exchange("stats", "done", reply, Raise("RequestError", ""), 503,
                  "Could not reach analytics service", NoBody, <<"mcp_channel_stats">>)
    ELSE IF ~Is2xx(reply.status)
    THEN Exchange("stats", "done", reply, Raise("HTTPStatusError", ""), reply.status,
                  "Failed to fetch channel stats", NoBody, <<"mcp_channel_stats">>)
    ELSE IF ~reply.json
    THEN Exchange("stats", "done", reply, Raise("JSONDecodeError", ""), 500,
                  "Internal Server Error", NoBody, <<"mcp_channel_stats">>)
    ELSE Exchange("stats", "done", reply, NoCall, 200, "", Passthrough(reply.body),
                  <<"mcp_channel_stats">>)

\* variant: a request that could not be sent is sent a second time
GetChannelStatsRetry(reply) ==
    IF reply.kind # "response"
    THEN Exchange("stats", "done", reply, Raise("RequestError", ""), 503,
                  "Could not reach analytics service", NoBody,
                  <<"mcp_channel_stats", "mcp_channel_stats">>)
    ELSE IF reply.status = 404
    THEN Exchange("stats", "done", reply, Raise("HTTPException", ""), 404,
                  "No connected YouTube channel found", NoBody, <<"mcp_channel_stats">>)
    ELSE IF ~Is2xx(reply.status)
    THEN Exchange("stats", "done", reply, Raise("HTTPStatusError", ""), reply.status,
                  "Failed to fetch channel stats", NoBody, <<"mcp_channel_stats">>)
    ELSE IF ~reply.json
    THEN Exchange("stats", "done", reply, Raise("JSONDecodeError", ""), 500,
                  "Internal Server Error", NoBody, <<"mcp_channel_stats">>)
    ELSE Exchange("stats", "done", reply, NoCall, 200, "", Passthrough(reply.body),
                  <<"mcp_channel_stats">>)

\* get_channel_stats
GetChannelStats(reply) ==
    IF reply.kind # "response"
    THEN Exchange("stats", "done", reply, Raise("RequestError", ""), 503,
                  "Could not reach analytics service", NoBody, <<"mcp_channel_stats">>)
    ELSE IF reply.status = 404
    THEN Exchange("stats", "done", reply, Raise("HTTPException", ""), 404,
                  "No connected YouTube channel found", NoBody, <<"mcp_channel_stats">>)
    ELSE IF ~Is2xx(reply.status)
    THEN Exchange("stats", "done", reply, Raise("HTTPStatusError", ""), reply.status,
                  "Failed to fetch channel stats", NoBody, <<"mcp_channel_stats">>)
    ELSE IF ~reply.json
    THEN Exchange("stats", "done", reply, Raise("JSONDecodeError", ""), 500,
                  "Internal Server Error", NoBody, <<"mcp_channel_stats">>)
    ELSE Exchange("stats", "done", reply, NoCall, 200, "", Passthrough(reply.body),
                  <<"mcp_channel_stats">>)

\* variant: the fallback leaves the counters out
TopVideoFallbackNoCounters ==
    [kind |-> "top_video", video_id |-> NULL, title |-> NULL, thumbnail_url |-> NULL,
     views |-> NULL, growth_percentage |-> NULL]

\* the dict returned by the except httpx.RequestError branch
TopVideoFallback ==
    [kind |-> "top_video", video_id |-> NULL, title |-> NULL, thumbnail_url |-> NULL,
     views |-> "0", growth_percentage |-> "0"]

\* get_top_video: only httpx.RequestError is caught; the HTTPStatusError of
\* raise_for_status leaves the handler and the server answers 500
GetTopVideo(reply) ==
    IF reply.kind # "response"
    THEN Exchange("top_video", "done", reply, Raise("RequestError", ""), 200, "",
                  TopVideoFallback, <<"mcp_top_video">>)
    ELSE IF ~Is2xx(reply.status)
    THEN Exchange("top_video", "done", reply, Raise("HTTPStatusError", ""), 500,
                  "Internal Server Error", NoBody, <<"mcp_top_video">>)
    ELSE IF ~reply.json
    THEN Exchange("top_video", "done", reply, Raise("JSONDecodeError", ""), 500,
                  "Internal Server Error", NoBody, <<"mcp_top_video">>)
    ELSE Exchange("top_video", "done", reply, NoCall, 200, "", Passthrough(reply.body),
                  <<"mcp_top_video">>)

-----------------------------------------------------------------------------
(* The proxy routes as actions: a request is sent on, then MCP's reply decides *)

ProxyRoutes == {"execute", "stats", "top_video"}

\* the handler runs to its await of the MCP call
ProxyBegin(route) ==
    /\ prx.pc # "awaiting"
    /\ prx' = Exchange(route, "awaiting", NoReply, NoCall, 0, "", NoBody, <<>>)
    /\ UNCHANGED <<oauthVars, gw>>

ExecuteReply(reply) ==
    /\ prx.pc = "awaiting" /\ prx.op = "execute"
    /\ prx' = ExecuteRoute(reply)
    /\ UNCHANGED <<oauthVars, gw>>

StatsReply(reply) ==
    /\ prx.pc = "awaiting" /\ prx.op = "stats"
    /\ prx' = GetChannelStats(reply)
    /\ UNCHANGED <<oauthVars, gw>>

TopVideoReply(reply) ==
    /\ prx.pc = "awaiting" /\ prx.op = "top_video"
    /\ prx' = GetTopVideo(reply)
    /\ UNCHANGED <<oauthVars, gw>>

ProxyNext ==
    \/ \E route \in ProxyRoutes : ProxyBegin(route)
    \/ \E reply \in ExecuteOutcomes : ExecuteReply(reply)
    \/ \E reply \in ProxyOutcomes : StatsReply(reply)
    \/ \E reply \in ProxyOutcomes : TopVideoReply(reply)

SpecProxy == Init /\ [][ProxyNext]_vars

-----------------------------------------------------------------------------
(* Properties of the proxy routes, checked under SpecProxy *)

Done(route) == prx.op = route /\ prx.pc = "done"

\* MCP answered 2xx with a JSON body that does not report success
ReportsFailure(reply) ==
    /\ reply.kind = "response" /\ Is2xx(reply.status) /\ reply.json
    /\ reply.body.success \in {ABSENT, NULL, "false"}

\* the body's error is an object whose code is PLAN_LIMIT_REACHED
CodeIsPlanLimit(reply) ==
    reply.body.error.kind = "object" /\ reply.body.error.code = "PLAN_LIMIT_REACHED"

NonSuccessStatus(reply) == reply.kind = "response" /\ reply.status \notin 200..299

C7_DownstreamFailureIs503 ==
    Done("execute") =>
        /\ prx.resp.status \in {200, 500, 503}
        /\ ( \/ prx.reply.kind \in {"timeout", "connect_error"}
             \/ NonSuccessStatus(prx.reply)
             \/ ReportsFailure(prx.reply) /\ ~CodeIsPlanLimit(prx.reply) )
               => prx.resp.status = 503 /\ prx.resp.body = NoBody
        /\ prx.resp.status = 503 <=> prx.client.raised = "MCPClientError"
        /\ prx.resp.status = 500 <=> prx.client.raised \notin {"", "MCPClientError"}

\* success=false with the plain-string error "boom" was answered with 503
C7_Witness ==
    /\ Done("execute") /\ ReportsFailure(prx.reply)
    /\ prx.reply.body.error.kind = "string" /\ prx.reply.body.error.message = "boom"
    /\ prx.resp.status = 503

C9_TopVideoFailsOpen ==
    (Done("top_video") /\ prx.reply.kind \in {"timeout", "connect_error"}) =>
        /\ prx.resp.status = 200
        /\ prx.resp.body = [kind |-> "top_video", video_id |-> NULL, title |-> NULL,
                            thumbnail_url |-> NULL, views |-> "0", growth_percentage |-> "0"]

\* a timed-out top-video call was answered with 200
C9_Witness == Done("top_video") /\ prx.reply.kind = "timeout" /\ prx.resp.status = 200

\* C10: the top-video route answers a non-2xx MCP status s with an error of the
\* same status s. The handler catches httpx.RequestError only, so the
\* HTTPStatusError of raise_for_status is answered with 500: this does not hold.
C10_TopVideoStatusPassthrough ==
    (Done("top_video") /\ NonSuccessStatus(prx.reply)) => prx.resp.status = prx.reply.status

\* MCP answered 2xx with a JSON body whose success is true and whose optional
\* members are absent, null or well-formed
SuccessReply ==
    /\ prx.reply.kind = "response" /\ Is2xx(prx.reply.status) /\ prx.reply.json
    /\ prx.reply.body.success = "true"
    /\ prx.reply.body.metadata.confidence \in {ABSENT, NULL} \cup ConfidenceInRange

\* C20: for every successful MCP /execute reply (2xx, success true) the client's
\* mapping is total: answer is the upstream content or "" when absent,
\* confidence is metadata.confidence or 0.0 when absent, tools_used is the
\* upstream list or the empty list when absent, content_type, tool_outputs and
\* metadata are passed through, success is true; no combination of absent or
\* null optional members makes the call fail.
C20_SuccessMappingTotal ==
    (Done("execute") /\ SuccessReply) =>
        LET data == prx.reply.body
            r == prx.client.value
        IN  /\ prx.client.raised = ""
            /\ prx.resp.status = 200 /\ prx.resp.body = r
            /\ r.answer = (IF data.content \in {ABSENT, NULL} THEN "" ELSE data.content)
            /\ r.confidence = (IF data.metadata.confidence \in {ABSENT, NULL} THEN "0.0"
                               ELSE data.metadata.confidence)
            /\ r.tools_used = (IF data.tools_used \in {ABSENT, NULL} THEN EmptyList
                               ELSE data.tools_used)
            /\ r.content_type = Get(data.content_type)
            /\ r.tool_outputs = Get(data.tool_outputs)
            /\ r.metadata.kind = Get(data.metadata.kind)
            /\ r.success = TRUE

-----------------------------------------------------------------------------
(* The other routes: user status, health, request validation of execute,
   mobile code exchange. gw holds the latest exchange of these routes. *)

\* one exchange: the route, where its handler is, the request input, the
\* handler's locals, the downstream reply it got last, what it caught or
\* raised, the response and the downstream calls made so far
Gateway(op, pc, input, locals, reply, client, status, detail, body, calls) ==
    [op |-> op, pc |-> pc, input |-> input, locals |-> locals, reply |-> reply,
     client |-> client, resp |-> [status |-> status, detail |-> detail, body |-> body],
     calls |-> calls]

NoLocals == [user |-> "", channel_id |-> "", channel_name |-> ""]

GatewayIdle == gw.pc \in {"idle", "done"}

\* variant: a failed lookup is reported to the caller
GetUserStatusStrict(user_id, reply) ==
    IF reply.kind # "response"
    THEN Gateway("user_status", "done", user_id, NoLocals, reply, Raise("RequestError", ""), 503,
                 "Could not reach analytics service", NoBody, <<"mcp_user_status">>)
    ELSE IF ~Is2xx(reply.status)
    THEN Gateway("user_status", "done", user_id, NoLocals, reply, Raise("HTTPStatusError", ""),
                 reply.status, "", NoBody, <<"mcp_user_status">>)
    ELSE Gateway("user_status", "done", user_id, NoLocals, reply, NoCall, 200, "",
                 Passthrough(reply.body), <<"mcp_user_status">>)

\* the dict returned by the except Exception branch of get_user_status
UserStatusFallback ==
    [kind |-> "user_status", user_plan |-> "free",
     usage |-> [used |-> "0", limit |-> "3", exhausted |-> "false"]]

\* get_user_status: every exception of the try block, the JSON decoding error
\* of a 2xx reply included, ends in the fallback
GetUserStatus(user_id, reply) ==
    LET caught == IF reply.kind # "response" THEN "RequestError"
                  ELSE IF ~Is2xx(reply.status) THEN "HTTPStatusError"
                  ELSE IF ~reply.json THEN "JSONDecodeError"
                  ELSE ""
    IN  IF caught # ""
        THEN Gateway("user_status", "done", user_id, NoLocals, reply, Raise(caught, ""), 200, "",
                     UserStatusFallback, <<"mcp_user_status">>)
        ELSE Gateway("user_status", "done", user_id, NoLocals, reply, NoCall, 200, "",
                     Passthrough(reply.body), <<"mcp_user_status">>)

\* user_id is a required query parameter: the values a caller supplies
StatusUserIds == {"u-1", "not-a-uuid"}

\* GET /api/v1/user/status?user_id=..: up to the await of the MCP call
UserStatusBegin(user_id) ==
    /\ GatewayIdle
    /\ gw' = Gateway("user_status", "awaiting", user_id, NoLocals, NoReply, NoCall, 0, "", NoBody,
                     <<>>)
    /\ UNCHANGED <<oauthVars, prx>>

UserStatusReply(reply) ==
    /\ gw.op = "user_status" /\ gw.pc = "awaiting"
    /\ gw' = GetUserStatus(gw.input, reply)
    /\ UNCHANGED <<oauthVars, prx>>

\* variant: any 2xx counts as reachable
PingAny2xx(reply) == reply.kind = "response" /\ Is2xx(reply.status)

\* MCPClient.ping: True for status 200, False for any other status and for
\* every exception
Ping(reply) == reply.kind = "response" /\ reply.status = 200

\* health_check: dependencies["mcp"] starts as "unknown" and is overwritten on
\* both paths of the try
HealthCheck(reply) ==
    LET is_mcp_reachable == Ping(reply)
        dependencies == IF is_mcp_reachable THEN "ok" ELSE "degraded"
    IN  Gateway("health", "done", "", NoLocals, reply, NoCall, 200, "",
                [kind |-> "health", status |-> "healthy", mcp |-> dependencies],
                <<"mcp_execute_ping">>)

\* GET /health: up to the await of the ping
HealthBegin ==
    /\ GatewayIdle
    /\ gw' = Gateway("health", "awaiting", "", NoLocals, NoReply, NoCall, 0, "",
                     [kind |-> "health", status |-> "", mcp |-> "unknown"], <<>>)
    /\ UNCHANGED <<oauthVars, prx>>

HealthReply(reply) ==
    /\ gw.op = "health" /\ gw.pc = "awaiting"
    /\ gw' = HealthCheck(reply)
    /\ UNCHANGED <<oauthVars, prx>>

-----------------------------------------------------------------------------
(* POST /api/v1/feedback *)

FeedbackValues == {"positive", "negative", "meh"}

\* submit_feedback: the value is checked and logged, nothing is stored or sent on
SubmitFeedback(feedback) ==
    IF feedback \notin {"positive", "negative"}
    THEN Gateway("feedback", "done", feedback, NoLocals, NoReply, Raise("HTTPException", ""),
                 400, "Invalid feedback type. Must be 'positive' or 'negative'.", NoBody, <<>>)
    ELSE Gateway("feedback", "done", feedback, NoLocals, NoReply, NoCall, 200, "",
                 [kind |-> "feedback", success |-> TRUE, message |-> "Feedback received"], <<>>)

Feedback(feedback) ==
    /\ GatewayIdle
    /\ gw' = SubmitFeedback(feedback)
    /\ UNCHANGED <<oauthVars, prx>>

-----------------------------------------------------------------------------
(* POST /api/v1/execute: validation of the request body against ExecuteRequest *)

\* message: min_length=1
MESSAGE_MIN_LENGTH == 1

\* message: max_length=10000
MESSAGE_MAX_LENGTH == 10000

\* the length constraint of ExecuteRequest.message
MessageAccepted(n) == n >= MESSAGE_MIN_LENGTH /\ n <= MESSAGE_MAX_LENGTH

\* message lengths a caller sends: the two limits and their outer neighbours
MessageLengths == {0, MESSAGE_MIN_LENGTH, MESSAGE_MAX_LENGTH, MESSAGE_MAX_LENGTH + 1}

\* the framework validates the body before the handler runs: a body that fails
\* ExecuteRequest is answered 422 (no handler for validation errors is
\* installed) and execute() is not called; otherwise execute() runs to its
\* await of MCPClient.execute
ExecuteSubmit(n) ==
    /\ GatewayIdle
    /\ gw' = IF MessageAccepted(n)
             THEN Gateway("execute", "awaiting", n, NoLocals, NoReply, NoCall, 0, "", NoBody,
                          <<"mcp_execute">>)
             ELSE Gateway("execute", "done", n, NoLocals, NoReply,
                          Raise("RequestValidationError", ""), 422, "validation error", NoBody,
                          <<>>)
    /\ UNCHANGED <<oauthVars, prx>>

\* MCP's reply to the forwarded request, answered as the execute route does
ExecuteServed(reply) ==
    /\ gw.op = "execute" /\ gw.pc = "awaiting"
    /\ LET r == ExecuteRoute(reply)
       IN  gw' = Gateway("execute", "done", gw.input, NoLocals, reply, r.client, r.resp.status,
                         r.resp.detail, r.resp.body, gw.calls)
    /\ UNCHANGED <<oauthVars, prx>>

-----------------------------------------------------------------------------
(* POST /auth/youtube/mobile/exchange *)

\* _exchange_mobile_code_for_tokens: as _exchange_code_for_tokens, the raised
\* text being the error detail alone
ExchangeMobileCodeForTokens(reply) ==
    IF reply.kind = "transport_error"
    THEN [raised |-> "transport error", access_token |-> ABSENT, refresh_token |-> ABSENT]
    ELSE IF reply.status # 200
    THEN LET error_detail ==
                 IF ~reply.json THEN "Token exchange failed"
                 ELSE IF reply.error_description # ABSENT THEN reply.error_description
                 ELSE IF reply.error # ABSENT THEN reply.error
                 ELSE "Unknown error"
         IN  [raised |-> error_detail, access_token |-> ABSENT, refresh_token |-> ABSENT]
    ELSE IF ~reply.json
    THEN [raised |-> "JSONDecodeError", access_token |-> ABSENT, refresh_token |-> ABSENT]
    ELSE [raised |-> "", access_token |-> reply.access_token,
          refresh_token |-> reply.refresh_token]

\* a mobile exchange suspended at an await or finished; detail holds the fixed
\* part of the HTTPException detail, client.text the str(e) that follows it
Mobile(pc, user_id, locals, reply, client, status, detail, body, calls) ==
    Gateway("mobile_exchange", pc, user_id, locals, reply, client, status, detail, body, calls)

\* variant: the user id is not validated before the token exchange
MobileUserIdAny(user_id) == TRUE

\* lines 490-493: uuid.UUID(body.user_id)
MobileUserIdValid(user_id) == IsUUID(user_id)

\* lines 487-497: user id validation, then the await of the token exchange
MobileBegin(user_id) ==
    /\ GatewayIdle
    /\ gw' = IF ~MobileUserIdValid(user_id)
             THEN Mobile("done", user_id, NoLocals, NoReply, Raise("HTTPException", ""), 400,
                         "Invalid user_id format", NoBody, <<>>)
             ELSE Mobile("token", user_id,
                         [NoLocals EXCEPT !.user = IF IsUUID(user_id) THEN UUIDOf(user_id) ELSE ""],
                         NoReply, NoCall, 0, "", NoBody, <<"google_token">>)
    /\ UNCHANGED <<oauthVars, prx>>

\* lines 496-517: the token exchange answered
MobileTokenReply(reply) ==
    /\ gw.op = "mobile_exchange" /\ gw.pc = "token"
    /\ LET tokens == ExchangeMobileCodeForTokens(reply)
           shown == [reply EXCEPT !.access_token = tokens.access_token]
       IN  gw' = IF tokens.raised # ""
                 THEN Mobile("done", gw.input, gw.locals, shown,
                             Raise("HTTPException", tokens.raised), 400, "Token exchange failed",
                             NoBody, gw.calls)
                 ELSE IF ~Truthy(tokens.access_token)
                 THEN Mobile("done", gw.input, gw.locals, shown, Raise("HTTPException", ""), 500,
                             "Google did not return an access token", NoBody, gw.calls)
                 ELSE Mobile("channel", gw.input, gw.locals, shown, NoCall, 0, "", NoBody,
                             Append(gw.calls, "youtube_channels"))
    /\ UNCHANGED <<oauthVars, prx>>

\* lines 516-537: the channel fetch answered
MobileChannelReply(reply) ==
    /\ gw.op = "mobile_exchange" /\ gw.pc = "channel"
    /\ LET channel_info == FetchYoutubeChannel(reply)
           shown == [kind |-> reply.kind, status |-> reply.status, items |-> reply.items]
       IN  gw' = IF channel_info.raised # ""
                 THEN Mobile("done", gw.input, gw.locals, shown,
                             Raise("HTTPException", channel_info.raised), 500,
                             "Failed to fetch YouTube channel", NoBody, gw.calls)
                 ELSE Mobile("forward", gw.input,
                             [gw.locals EXCEPT !.channel_id = channel_info.id,
                                               !.channel_name = channel_info.title],
                             shown, NoCall, 0, "", NoBody,
                             Append(gw.calls, "mcp_channels_connect"))
    /\ UNCHANGED <<oauthVars, prx>>

\* lines 529-554: the MCP forward answered
MobileForwardReply(reply) ==
    /\ gw.op = "mobile_exchange" /\ gw.pc = "forward"
    /\ LET forwarded == ForwardChannelToMcp(reply)
       IN  gw' = IF forwarded.raised # ""
                 THEN Mobile("done", gw.input, gw.locals, reply,
                             Raise("HTTPException", forwarded.raised), 500,
                             "Failed to save channel connection", NoBody, gw.calls)
                 ELSE Mobile("done", gw.input, gw.locals, reply, NoCall, 200, "",
                             [kind |-> "mobile_exchange", success |-> TRUE,
                              user_id |-> UUIDStr(gw.locals.user),
                              channel_id |-> gw.locals.channel_id,
                              channel_name |-> gw.locals.channel_name],
                             gw.calls)
    /\ UNCHANGED <<oauthVars, prx>>

-----------------------------------------------------------------------------
(* The middleware stack of create_app. add_middleware puts each middleware
   outside the ones added before it, so a request passes, from the outside in:
   the server-error layer, CORS (when origins are configured), security
   headers, request id, the exception layer that answers HTTPException, the
   route. *)

REQUEST_ID_HEADER == "X-Request-ID"

\* str(uuid.uuid4())
FreshRequestId == "generated-uuid4"

\* cors_origins as configured by default
CorsOrigins == {"http://localhost:3000", "http://localhost:8080"}

NoHeaders ==
    [x_request_id |-> ABSENT, x_content_type_options |-> ABSENT, x_frame_options |-> ABSENT,
     x_xss_protection |-> ABSENT, referrer_policy |-> ABSENT, permissions_policy |-> ABSENT,
     access_control_allow_origin |-> ABSENT]

\* inbound requests: the X-Request-ID header ("" is a header with an empty
\* value), the Origin header, and whether it is a CORS preflight (OPTIONS with
\* Access-Control-Request-Method)
Requests ==
    [x_request_id : {ABSENT, "", "rid-1"},
     origin : {ABSENT, "http://localhost:3000", "http://elsewhere"},
     preflight : {FALSE}]
    \cup [x_request_id : {ABSENT, "rid-1"},
          origin : {"http://localhost:3000", "http://elsewhere"},
          preflight : {TRUE}]

HttpResponse(status, headers) == [kind |-> "response", status |-> status, headers |-> headers]

\* an exception travelling outwards through the stack
Escaped == [kind |-> "exception", status |-> 0, headers |-> NoHeaders]

\* what leaves the exception layer for a handler's result: the response of a
\* return or of an HTTPException, or the exception itself when the handler let
\* one out that is not an HTTPException
RouterResult(x) ==
    IF x.resp.status = 500 /\ x.client.raised \in {"HTTPStatusError", "JSONDecodeError"}
    THEN Escaped
    ELSE HttpResponse(x.resp.status, NoHeaders)

\* RequestIDMiddleware.dispatch: call_next raises what the inner application
\* raised, and then the lines after it are not run
RequestIDDispatch(request, inner) ==
    LET request_id == IF request.x_request_id \notin {ABSENT, ""} THEN request.x_request_id
                      ELSE FreshRequestId
    IN  IF inner.kind = "exception" THEN inner
        ELSE [inner EXCEPT !.headers.x_request_id = request_id]

\* SecurityHeadersMiddleware.dispatch
SecurityHeadersDispatch(request, inner) ==
    IF inner.kind = "exception" THEN inner
    ELSE [inner EXCEPT !.headers.x_content_type_options = "nosniff",
                       !.headers.x_frame_options = "DENY",
                       !.headers.x_xss_protection = "1; mode=block",
                       !.headers.referrer_policy = "strict-origin-when-cross-origin",
                       !.headers.permissions_policy = "geolocation=(), microphone=(), camera=()"]

\* a preflight is answered by the CORS layer itself
AnsweredByCors(request, cors) == cors /\ request.origin # ABSENT /\ request.preflight

\* CORSMiddleware: answers a preflight itself (200, or 400 for an origin that
\* is not allowed) without calling the inner application; otherwise adds the
\* allow-origin header to the inner response of an allowed origin
CorsDispatch(request, inner) ==
    IF request.origin = ABSENT THEN inner
    ELSE IF request.preflight
    THEN IF request.origin \in CorsOrigins
         THEN HttpResponse(200, [NoHeaders EXCEPT !.access_control_allow_origin = request.origin])
         ELSE HttpResponse(400, NoHeaders)
    ELSE IF inner.kind = "exception" THEN inner
    ELSE IF request.origin \in CorsOrigins
         THEN [inner EXCEPT !.headers.access_control_allow_origin = request.origin]
         ELSE inner

\* the server-error layer: an exception that reaches it is answered with a
\* plain 500 built there
ServerErrorDispatch(inner) ==
    IF inner.kind = "exception" THEN HttpResponse(500, NoHeaders) ELSE inner

\* create_app: the stack applied to what the router gives; an OPTIONS request
\* that reaches the router of these GET routes is answered 405 there
AppDispatch(request, cors, routed) ==
    LET inner == IF request.preflight THEN HttpResponse(405, NoHeaders) ELSE routed
        withId == RequestIDDispatch(request, inner)
        withSecurity == SecurityHeadersDispatch(request, withId)
        withCors == IF cors THEN CorsDispatch(request, withSecurity) ELSE withSecurity
    IN  ServerErrorDispatch(withCors)

ServedRoutes == {"stats", "top_video"}

\* one request to a GET route through the stack, from its arrival to the
\* response sent. cors is whether create_app installed the CORS layer: it is
\* read once per process, and one request sees one value.
Serve(request, route, reply, cors) ==
    /\ GatewayIdle
    /\ LET x == IF route = "stats" THEN GetChannelStats(reply) ELSE GetTopVideo(reply)
           handled == ~AnsweredByCors(request, cors) /\ ~request.preflight
           routed == RouterResult(x)
       IN  gw' = [op |-> "serve", pc |-> "done", input |-> request, route |-> route,
                  cors |-> cors, handled |-> handled,
                  raised |-> IF handled THEN x.client.raised ELSE "",
                  escaped |-> handled /\ routed.kind = "exception",
                  resp |-> AppDispatch(request, cors, routed),
                  calls |-> IF handled THEN x.calls ELSE <<>>]
    /\ UNCHANGED <<oauthVars, prx>>

-----------------------------------------------------------------------------
(* The other routes, and the middleware stack, as specifications *)

GatewayNext ==
    \/ \E user_id \in StatusUserIds : UserStatusBegin(user_id)
    \/ \E reply \in ProxyOutcomes : UserStatusReply(reply)
    \/ HealthBegin
    \/ \E reply \in ProxyOutcomes : HealthReply(reply)
    \/ \E n \in MessageLengths : ExecuteSubmit(n)
    \/ \E reply \in ExecuteOutcomes : ExecuteServed(reply)
    \/ \E user_id \in UserIdInputs : MobileBegin(user_id)
    \/ \E reply \in TokenOutcomes : MobileTokenReply(reply)
    \/ \E reply \in ChannelOutcomes : MobileChannelReply(reply)
    \/ \E reply \in ForwardOutcomes : MobileForwardReply(reply)
    \/ \E feedback \in FeedbackValues : Feedback(feedback)

SpecGateway == Init /\ [][GatewayNext]_vars

\* requests to the GET routes seen at the outside of the middleware stack
StackNext ==
    \E request \in Requests, route \in ServedRoutes, reply \in ProxyOutcomes, cors \in BOOLEAN :
        Serve(request, route, reply, cors)

SpecStack == Init /\ [][StackNext]_vars

-----------------------------------------------------------------------------
(* Properties of the other routes, checked under SpecGateway, and of the
   middleware stack, checked under SpecStack *)

GatewayDone(route) == gw.op = route /\ gw.pc = "done"

\* C11: with a user_id supplied, the user-status route always answers 200: the
\* literal default {user_plan: "free", usage: {used: 0, limit: 3, exhausted:
\* false}} when the MCP lookup fails (non-2xx, transport error, timeout), and
\* MCP's JSON body unchanged when it succeeds; the lookup is made once.
C11_UserStatusFailsOpen ==
    GatewayDone("user_status") =>
        /\ gw.resp.status = 200
        /\ gw.calls = <<"mcp_user_status">>
        /\ (gw.reply.kind # "response" \/ gw.reply.status \notin 200..299) =>
               gw.resp.body = [kind |-> "user_status", user_plan |-> "free",
                               usage |-> [used |-> "0", limit |-> "3", exhausted |-> "false"]]
        /\ (gw.reply.kind = "response" /\ gw.reply.status \in 200..299 /\ gw.reply.json) =>
               gw.resp.body = [kind |-> "passthrough", json |-> gw.reply.body]

\* MCP answered the lookup with 503 and the caller got 200 with the default
C11_Witness ==
    /\ GatewayDone("user_status") /\ gw.reply.kind = "response" /\ gw.reply.status = 503
    /\ gw.resp.status = 200 /\ gw.resp.body.kind = "user_status"

\* C12: /health always answers 200 with status "healthy"; dependencies.mcp is
\* "ok" exactly when the ping got HTTP 200, "degraded" for any other status,
\* exception or timeout, and never "unknown".
C12_HealthAlwaysHealthy ==
    GatewayDone("health") =>
        /\ gw.resp.status = 200
        /\ gw.resp.body.status = "healthy"
        /\ gw.resp.body.mcp \in {"ok", "degraded"}
        /\ gw.resp.body.mcp = "ok" <=> (gw.reply.kind = "response" /\ gw.reply.status = 200)

\* the ping got 201 and the dependency is reported degraded
C12_Witness ==
    /\ GatewayDone("health") /\ gw.reply.kind = "response" /\ gw.reply.status = 201
    /\ gw.resp.body.mcp = "degraded" /\ gw.resp.status = 200

\* the caller sent an X-Request-ID with a value
SuppliedRequestId == gw.input.x_request_id \notin {ABSENT, ""}

\* C13: every response, including the one for a handler that failed with an
\* unhandled exception and the ones the CORS layer produces, carries
\* X-Request-ID: the inbound value when the caller supplied one, a generated
\* one otherwise. The 500 of the server-error layer and the CORS preflight
\* answers are built outside RequestIDMiddleware: this does not hold.
C13_EveryResponseHasRequestId ==
    GatewayDone("serve") =>
        /\ gw.resp.headers.x_request_id # ABSENT
        /\ SuppliedRequestId => gw.resp.headers.x_request_id = gw.input.x_request_id
        /\ gw.input.x_request_id = ABSENT => gw.resp.headers.x_request_id = FreshRequestId

\* C14: every response carries the five security headers with their literal
\* values, for every route and status, including responses to requests whose
\* handler raised an exception. The 500 of the server-error layer and the CORS
\* preflight answers are built outside SecurityHeadersMiddleware: this does
\* not hold.
C14_EveryResponseHasSecurityHeaders ==
    GatewayDone("serve") =>
        /\ gw.resp.headers.x_content_type_options = "nosniff"
        /\ gw.resp.headers.x_frame_options = "DENY"
        /\ gw.resp.headers.x_xss_protection = "1; mode=block"
        /\ gw.resp.headers.referrer_policy = "strict-origin-when-cross-origin"
        /\ gw.resp.headers.permissions_policy = "geolocation=(), microphone=(), camera=()"

\* C15: the execute route rejects an empty message with 400, accepts a message
\* of exactly 10,000 characters at the validation layer, rejects one of 10,001
\* characters with 400, and a rejected request never reaches MCP. The
\* rejections are answered 422 by the framework: the status does not hold.
C15_MessageLengthRejectedWith400 ==
    gw.op = "execute" =>
        /\ gw.input = 0 => gw.resp.status = 400 /\ gw.calls = <<>>
        /\ gw.input = 10000 => gw.calls = <<"mcp_execute">> /\ gw.resp.status # 400
        /\ gw.input = 10001 => gw.resp.status = 400 /\ gw.calls = <<>>

\* the access token of the token response counts as missing
NoAccessToken == gw.reply.access_token \in {ABSENT, NULL, ""}

\* C16: the mobile exchange runs its steps in order and stops at the first
\* failure: invalid user_id gives 400 before any outbound call; a failed token
\* exchange 400; no access_token 500 "Google did not return an access token";
\* a failed channel fetch 500; a failed MCP forward 500 "Failed to save channel
\* connection"; {success: true, user_id, channel_id, channel_name} is returned
\* only after the MCP forward succeeded.
C16_MobileExchangeSteps ==
    gw.op = "mobile_exchange" =>
        /\ ~IsUUID(gw.input) =>
               /\ gw.pc = "done" /\ gw.calls = <<>>
               /\ gw.resp.status = 400 /\ gw.resp.detail = "Invalid user_id format"
        /\ gw.calls \in {<<>>, <<"google_token">>, <<"google_token", "youtube_channels">>,
                         <<"google_token", "youtube_channels", "mcp_channels_connect">>}
        /\ gw.pc = "done" <=> gw.resp.status # 0
        /\ (gw.pc = "done" /\ Len(gw.calls) = 1) =>
               \/ /\ gw.reply.kind # "response" \/ gw.reply.status # 200 \/ ~gw.reply.json
                  /\ gw.resp.status = 400 /\ gw.resp.detail = "Token exchange failed"
               \/ /\ gw.reply.kind = "response" /\ gw.reply.status = 200 /\ gw.reply.json
                  /\ NoAccessToken
                  /\ gw.resp.status = 500
                  /\ gw.resp.detail = "Google did not return an access token"
        /\ (gw.pc = "done" /\ Len(gw.calls) = 2) =>
               /\ gw.reply.kind # "response" \/ gw.reply.status # 200 \/ gw.reply.items = 0
               /\ gw.resp.status = 500 /\ gw.resp.detail = "Failed to fetch YouTube channel"
        /\ (gw.pc = "done" /\ Len(gw.calls) = 3) =>
               IF gw.reply.kind = "response" /\ gw.reply.status \in {200, 201}
               THEN /\ gw.resp.status = 200
                    /\ gw.resp.body = [kind |-> "mobile_exchange", success |-> TRUE,
                                       user_id |-> <<gw.locals.user>>,
                                       channel_id |-> "UC-1", channel_name |-> "Channel One"]
               ELSE /\ gw.resp.status = 500
                    /\ gw.resp.detail = "Failed to save channel connection"
        /\ gw.resp.status = 200 => Len(gw.calls) = 3

\* the exchange stopped at the missing access token, before the channel fetch
C16_Witness ==
    /\ GatewayDone("mobile_exchange") /\ gw.calls = <<"google_token">>
    /\ gw.resp.status = 500 /\ gw.resp.detail = "Google did not return an access token"

-----------------------------------------------------------------------------
(* All routes that call a downstream service *)

\* no OAuth request has been handled
OAuthIdle ==
    /\ pending = <<>> /\ issued = <<>> /\ redeemed = {}
    /\ reqs = EmptyBag /\ last = NoStep

OnlyOAuth == prx = NoExchange /\ gw = NoGateway

OnlyProxy == OAuthIdle /\ gw = NoGateway

OnlyGateway == OAuthIdle /\ prx = NoExchange

\* The OAuth routes, the MCP proxies and the remaining routes have no variable in
\* common (the pending-state map is touched by the OAuth routes only), so a
\* behaviour of the whole application is an interleaving of one behaviour of
\* each group. DownstreamNext runs one group at a time from the initial state.
DownstreamNext ==
    \/ OnlyOAuth /\ \E u \in StartInputs : Start(u)
    \/ OnlyOAuth /\ \E q \in LoginQueries : Login(q)
    \/ OnlyOAuth /\ \E state \in CallbackStates : CallbackBegin(state)
    \/ OnlyOAuth /\ \E r \in BagToSet(reqs), reply \in TokenOutcomes : CallbackTokenReply(r, reply)
    \/ OnlyOAuth /\ \E r \in BagToSet(reqs), reply \in ChannelOutcomes : CallbackChannelReply(r, reply)
    \/ OnlyOAuth /\ \E r \in BagToSet(reqs), reply \in ForwardOutcomes : CallbackForwardReply(r, reply)
    \/ OnlyProxy /\ \E route \in ProxyRoutes : ProxyBegin(route)
    \/ OnlyProxy /\ \E reply \in ExecuteOutcomes : ExecuteReply(reply)
    \/ OnlyProxy /\ \E reply \in ProxyOutcomes : StatsReply(reply)
    \/ OnlyProxy /\ \E reply \in ProxyOutcomes : TopVideoReply(reply)
    \/ OnlyGateway /\ \E user_id \in StatusUserIds : UserStatusBegin(user_id)
    \/ OnlyGateway /\ \E reply \in ProxyOutcomes : UserStatusReply(reply)
    \/ OnlyGateway /\ HealthBegin
    \/ OnlyGateway /\ \E reply \in ProxyOutcomes : HealthReply(reply)
    \/ OnlyGateway /\ \E n \in MessageLengths : ExecuteSubmit(n)
    \/ OnlyGateway /\ \E reply \in ExecuteOutcomes : ExecuteServed(reply)
    \/ OnlyGateway /\ \E user_id \in UserIdInputs : MobileBegin(user_id)
    \/ OnlyGateway /\ \E reply \in TokenOutcomes : MobileTokenReply(reply)
    \/ OnlyGateway /\ \E reply \in ChannelOutcomes : MobileChannelReply(reply)
    \/ OnlyGateway /\ \E reply \in ForwardOutcomes : MobileForwardReply(reply)

SpecDownstream == Init /\ [][DownstreamNext]_vars

\* no element occurs twice
NoRepeat(seq) == \A i, j \in 1..Len(seq) : i # j => seq[i] # seq[j]

\* the downstream endpoints
Endpoints ==
    {"google_token", "youtube_channels", "mcp_channels_connect", "mcp_execute",
     "mcp_execute_ping", "mcp_channel_stats", "mcp_top_video", "mcp_user_status"}

\* C19: no retry. While one inbound request is handled each downstream endpoint
\* is called at most once, and the reply to a call, failed or not, is followed by
\* the next step or by the response: a failed call ends the request with the
\* route's error or fallback response and the calls made so far.
C19_NoRetry ==
    /\ \A r \in BagToSet(reqs) : NoRepeat(r.calls)
    /\ NoRepeat(last.calls) /\ NoRepeat(prx.calls) /\ NoRepeat(gw.calls)
    /\ \A i \in 1..Len(last.calls) : last.calls[i] \in Endpoints
    /\ \A i \in 1..Len(prx.calls) : prx.calls[i] \in Endpoints
    /\ \A i \in 1..Len(gw.calls) : gw.calls[i] \in Endpoints
    /\ (last.op = "callback" /\ last.step # "validate" /\ ~last.ok) =>
            /\ last.resp.status = 302 /\ last.resp.outcome = "error"
            /\ Len(last.calls) = (CASE last.step = "token" -> 1
                                     [] last.step = "channel" -> 2
                                     [] OTHER -> 3)
    /\ prx.pc = "done" =>
            /\ Len(prx.calls) = 1
            /\ prx.resp.status # 0
            /\ (prx.reply.kind # "response" \/ ~Is2xx(prx.reply.status)) =>
                    \/ prx.resp.status \in {404, 500, 503} \cup {prx.reply.status}
                    \/ prx.resp.body = TopVideoFallback
    /\ GatewayDone("user_status") =>
            /\ Len(gw.calls) = 1
            /\ (gw.reply.kind # "response" \/ ~Is2xx(gw.reply.status)) =>
                    gw.resp.status = 200 /\ gw.resp.body = UserStatusFallback
    /\ (GatewayDone("mobile_exchange") /\ gw.resp.status # 200) =>
            /\ gw.resp.status \in {400, 500}
            /\ gw.resp.body = NoBody

\* the stats request could not reach MCP and was answered 503 after one attempt
C19_Witness ==
    /\ Done("stats") /\ prx.reply.kind \in {"timeout", "connect_error"}
    /\ prx.calls = <<"mcp_channel_stats">> /\ prx.resp.status = 503

-----------------------------------------------------------------------------
(* Error detail of a refused token exchange, checked under SpecDownstream *)

\* the callback's token exchange was answered with a status other than 200
BrowserTokenRefused ==
    /\ last.op = "callback" /\ last.step = "token"
    /\ last.answer.kind = "response" /\ last.answer.status # 200

\* the mobile token exchange was answered with a status other than 200
MobileTokenRefused ==
    /\ GatewayDone("mobile_exchange") /\ gw.calls = <<"google_token">>
    /\ gw.reply.kind = "response" /\ gw.reply.status # 200

\* error_description, else error, of a JSON body; otherwise for what the
\* claim leaves to the caller
DetailOf(reply, notJson, neither) ==
    IF ~reply.json THEN notJson
    ELSE IF reply.error_description # ABSENT THEN reply.error_description
    ELSE IF reply.error # ABSENT THEN reply.error
    ELSE neither

\* C21 as stated: a token endpoint answer other than 200 fails both helpers
\* with the body's error_description, else its error, and with "Unknown error"
\* when the body is not parseable JSON.
C21_UnknownErrorWhenNotJson ==
    /\ BrowserTokenRefused =>
            /\ ~last.ok
            /\ last.error = DetailOf(last.answer, "Unknown error", last.error)
    /\ MobileTokenRefused =>
            /\ gw.client.raised # ""
            /\ gw.client.text = DetailOf(gw.reply, "Unknown error", gw.client.text)

\* C21: a token endpoint answer other than 200 fails both helpers with the
\* body's error_description, else its error; the detail is "Unknown error" when
\* the body is JSON with neither member, and "Token exchange failed" when the
\* body is not parseable JSON.
C21_TokenErrorDetail ==
    /\ BrowserTokenRefused =>
            /\ ~last.ok /\ last.calls = <<"google_token">>
            /\ last.error = DetailOf(last.answer, "Token exchange failed", "Unknown error")
    /\ MobileTokenRefused =>
            /\ gw.client.raised # "" /\ gw.resp.status = 400
            /\ gw.client.text = DetailOf(gw.reply, "Token exchange failed", "Unknown error")

\* Google refused the mobile exchange with a body that is not JSON
C21_Witness ==
    /\ MobileTokenRefused /\ ~gw.reply.json
    /\ gw.client.text = "Token exchange failed"

-----------------------------------------------------------------------------
(* The pending-state store under all routes *)

\* one issued token waits in the store and no callback is in flight
StoreLoaded ==
    /\ reqs = EmptyBag /\ redeemed = {}
    /\ Cardinality(DOMAIN pending) = 1
    /\ last.op \in {"start", "login"} /\ last.ok

\* The OAuth routes as in Spec; the routes that never name _pending_states are
\* run, one group at a time, against a store that holds an issued token.
StoreNext ==
    \/ OnlyOAuth /\ \E u \in StartInputs : Start(u)
    \/ OnlyOAuth /\ \E q \in LoginQueries : Login(q)
    \/ OnlyOAuth /\ \E state \in CallbackStates : CallbackBegin(state)
    \/ OnlyOAuth /\ \E r \in BagToSet(reqs), reply \in TokenOutcomes : CallbackTokenReply(r, reply)
    \/ OnlyOAuth /\ \E r \in BagToSet(reqs), reply \in ChannelOutcomes : CallbackChannelReply(r, reply)
    \/ OnlyOAuth /\ \E r \in BagToSet(reqs), reply \in ForwardOutcomes : CallbackForwardReply(r, reply)
    \/ StoreLoaded /\ gw = NoGateway /\ \E route \in ProxyRoutes : ProxyBegin(route)
    \/ StoreLoaded /\ gw = NoGateway /\ \E reply \in ExecuteOutcomes : ExecuteReply(reply)
    \/ StoreLoaded /\ gw = NoGateway /\ \E reply \in ProxyOutcomes : StatsReply(reply)
    \/ StoreLoaded /\ gw = NoGateway /\ \E reply \in ProxyOutcomes : TopVideoReply(reply)
    \/ StoreLoaded /\ prx = NoExchange /\ \E user_id \in StatusUserIds : UserStatusBegin(user_id)
    \/ StoreLoaded /\ prx = NoExchange /\ \E reply \in ProxyOutcomes : UserStatusReply(reply)
    \/ StoreLoaded /\ prx = NoExchange /\ HealthBegin
    \/ StoreLoaded /\ prx = NoExchange /\ \E reply \in ProxyOutcomes : HealthReply(reply)
    \/ StoreLoaded /\ prx = NoExchange /\ \E n \in MessageLengths : ExecuteSubmit(n)
    \/ StoreLoaded /\ prx = NoExchange /\ \E reply \in ExecuteOutcomes : ExecuteServed(reply)
    \/ StoreLoaded /\ prx = NoExchange /\ \E user_id \in UserIdInputs : MobileBegin(user_id)
    \/ StoreLoaded /\ prx = NoExchange /\ \E reply \in TokenOutcomes : MobileTokenReply(reply)
    \/ StoreLoaded /\ prx = NoExchange /\ \E reply \in ChannelOutcomes : MobileChannelReply(reply)
    \/ StoreLoaded /\ prx = NoExchange /\ \E reply \in ForwardOutcomes : MobileForwardReply(reply)
    \/ StoreLoaded /\ prx = NoExchange /\ \E feedback \in FeedbackValues : Feedback(feedback)

SpecStore == Init /\ [][StoreNext]_vars

\* the step added exactly the entry t -> u
AddedEntry(t, u) ==
    /\ t \notin DOMAIN pending
    /\ DOMAIN pending' = DOMAIN pending \cup {t}
    /\ pending'[t] = u
    /\ \A x \in DOMAIN pending : pending'[x] = pending[x]

\* the step removed the entry of t, if there was one, and nothing else
RemovedAtMost(t) ==
    /\ DOMAIN pending' \in {DOMAIN pending, DOMAIN pending \ {t}}
    /\ \A x \in DOMAIN pending' : pending'[x] = pending[x]

\* C22: the store changes in two ways only. A successful start or login adds
\* exactly one entry, a new token mapped to the requesting user id; a callback
\* whose state holds a colon removes at most the entry of the token it carries.
\* Every other step (mobile exchange, execute, stats, top-video, user status,
\* feedback, health, a legacy callback, the later steps of a callback) leaves
\* the store as it is, so an entry is in the store until a callback carrying
\* its token is processed.
C22_StoreChangesOnlyTwoWays ==
    [][/\ pending' # pending =>
             \/ /\ last'.op \in {"start", "login"} /\ last'.ok
                /\ AddedEntry(last'.token, Requester(last'))
             \/ /\ last'.op = "callback" /\ last'.step = "validate" /\ HasColon(last'.input)
                /\ RemovedAtMost(SplitTail(last'.input))
       /\ (last' # last /\ last'.op \in {"start", "login"} /\ last'.ok) =>
             AddedEntry(last'.token, Requester(last'))
       /\ (last' # last /\ last'.op \in {"start", "login"} /\ ~last'.ok) => pending' = pending
       /\ (last' # last /\ last'.op = "callback" /\ HasColon(last'.input)) =>
             RemovedAtMost(SplitTail(last'.input))
       /\ (last' # last /\ last'.op = "callback" /\ ~HasColon(last'.input)) => pending' = pending
       /\ (gw' # gw \/ prx' # prx) => pending' = pending
       /\ \A t \in DOMAIN pending \ DOMAIN pending' :
             last'.op = "callback" /\ last'.token = t]_vars

\* a mobile exchange went through all its steps and the issued token is still
\* in the store with its user id
C22_Witness ==
    /\ GatewayDone("mobile_exchange") /\ gw.resp.status = 200
    /\ Cardinality(DOMAIN pending) = 1 /\ pending = issued

====
